---- MODULE Spec2Model ----
(***************************************************************************)
(* Travel photo workflow: the orchestrator's stage sequence, the duplicate *)
(* detection agent (perceptual-hash distance, greedy similarity grouping,  *)
(* best-shot selection) and the quality assessment agent (per-image score, *)
(* worker pool) modelled from src/orchestrator.py,                         *)
(* src/agents/duplicate_detection.py and src/agents/quality_assessment.py. *)
(***************************************************************************)
EXTENDS Integers, Sequences, FiniteSets, TLC

VARIABLES
    image_paths,        \* run_workflow: the ingested files, in get_image_files order
    pc,                 \* position in run_workflow / in the function under check
    outputs,            \* TravelPhotoOrchestrator.outputs      (key -> stage output)
    validations,        \* TravelPhotoOrchestrator.validations
    agent_performance,  \* TravelPhotoOrchestrator.agent_performance
    config,             \* the configuration the agents are constructed from
    hash_threshold,     \* DuplicateDetectionAgent.hash_threshold
    image_data,         \* the record list handed to find_similar_groups
    similarity_groups,  \* the list find_similar_groups returned
    futures,            \* QualityAssessmentAgent.run: the futures, in submission order
    assessment_list,    \* QualityAssessmentAgent.run: the records collected so far
    image,              \* process_image: what reading and measuring the file yields
    assessment,         \* process_image: the record it returned
    arg_hash1,          \* hamming_distance: its argument hash1
    arg_hash2,          \* hamming_distance: its argument hash2
    returned_distance   \* hamming_distance: the value it returned

\* the worker pool of QualityAssessmentAgent.run
pool_vars == <<futures, assessment_list>>

\* arguments and results of the functions called on their own
unit_vars == <<image, assessment, arg_hash1, arg_hash2, returned_distance>>

vars == <<image_paths, pc, outputs, validations, agent_performance,
          config, hash_threshold, image_data, similarity_groups, pool_vars, unit_vars>>

----------------------------------------------------------------------------
(* Bounds of the model *)

\* images in a list given to find_similar_groups
MaxImages == 4
\* images in a list whose scores vary (best-shot selection)
MaxScored == 3
\* files in the batch run_workflow ingests
MaxBatch == 2
\* hex characters of one perceptual hash
HashHexLen == 16
\* characters of the short strings given to hamming_distance
MaxHashLen == 2
\* files in the batch QualityAssessmentAgent.run is given on its own
MaxPool == 3

----------------------------------------------------------------------------
(* Python dictionaries: d.get(key, default) *)

Get(d, key, default) == IF key \in DOMAIN d THEN d[key] ELSE default

Range(s) == {s[k] : k \in DOMAIN s}

----------------------------------------------------------------------------
(* IEEE-754 binary64 arithmetic on the values select_best_image computes.   *)
(* A float is the pair <<hi, lo>> standing for (hi * 2^27 + lo) * 2^-54;    *)
(* a binary64 keeps 53 significant bits, results round to nearest, ties to  *)
(* even.                                                                    *)

Limb == 2^27

\* the literal 0.4 is the double 0x1999999999999A * 2^-54
TechnicalWeight == <<53687091, 26843546>>
\* the literal 0.6 is the double 0x13333333333333 * 2^-53
AestheticWeight == <<80530636, 107374182>>

ExcessBits(hi) ==
    IF hi < 2^26 THEN 0
    ELSE IF hi < 2^27 THEN 1
    ELSE IF hi < 2^28 THEN 2
    ELSE IF hi < 2^29 THEN 3
    ELSE 4

RoundNearestEven(x) ==
    LET d    == ExcessBits(x[1])
        unit == 2^d
        r    == x[2] % unit
        q    == x[2] \div unit
        up   == d > 0 /\ (2 * r > unit \/ (2 * r = unit /\ q % 2 = 1))
        lo   == (q + (IF up THEN 1 ELSE 0)) * unit
    IN  IF lo = Limb THEN <<x[1] + 1, 0>> ELSE <<x[1], lo>>

\* int * float: the int converts exactly, the product is rounded once
FloatMul(k, f) ==
    LET lo == k * f[2]
    IN  RoundNearestEven(<<k * f[1] + (lo \div Limb), lo % Limb>>)

FloatAdd(f, g) ==
    LET lo == f[2] + g[2]
    IN  RoundNearestEven(<<f[1] + g[1] + (lo \div Limb), lo % Limb>>)

FloatLess(f, g) == f[1] < g[1] \/ (f[1] = g[1] /\ f[2] < g[2])

\* mutant: the two weights exchanged
CombinedScoreWeightsSwapped(technical, aesthetic) ==
    FloatAdd(FloatMul(technical, AestheticWeight), FloatMul(aesthetic, TechnicalWeight))

\* technical * 0.4 + aesthetic * 0.6
combined_score(technical, aesthetic) ==
    FloatAdd(FloatMul(technical, TechnicalWeight), FloatMul(aesthetic, AestheticWeight))

----------------------------------------------------------------------------
(* hamming_distance: a hash is the sequence of the characters of its hex    *)
(* string; the empty sequence is the empty string compute_hash returns on   *)
(* failure.                                                                 *)

HexChars == <<"0", "1", "2", "3", "4", "5", "6", "7",
              "8", "9", "a", "b", "c", "d", "e", "f">>

\* int(c, 16)
HexValue(c) == (CHOOSE k \in 1..16 : HexChars[k] = c) - 1

RECURSIVE Xor(_, _)
Xor(a, b) ==
    IF a = 0 /\ b = 0 THEN 0
    ELSE (((a % 2) + (b % 2)) % 2) + 2 * Xor(a \div 2, b \div 2)

\* mutant: a differing digit counts once, whatever its differing bits
CountOnesAsDigit(x) == IF x = 0 THEN 0 ELSE 1

\* bin(x).count('1')
RECURSIVE CountOnes(_)
CountOnes(x) == IF x = 0 THEN 0 ELSE (x % 2) + CountOnes(x \div 2)

RECURSIVE ZipDistance(_, _, _)
ZipDistance(hash1, hash2, k) ==
    IF k > Len(hash1) THEN 0
    ELSE CountOnes(Xor(HexValue(hash1[k]), HexValue(hash2[k])))
         + ZipDistance(hash1, hash2, k + 1)

InvalidComparison == 999

\* mutant: only hash1 is checked, zip stops at the end of hash1
HammingDistanceOneSided(hash1, hash2) ==
    IF Len(hash1) = 0 \/ Len(hash1) > Len(hash2)
    THEN InvalidComparison
    ELSE ZipDistance(hash1, hash2, 1)

hamming_distance(hash1, hash2) ==
    IF Len(hash1) = 0 \/ Len(hash2) = 0 \/ Len(hash1) # Len(hash2)
    THEN InvalidComparison
    ELSE ZipDistance(hash1, hash2, 1)

----------------------------------------------------------------------------
(* QualityAssessmentAgent: the four sub-metrics and process_image.  The     *)
(* weighted average is binary64 arithmetic; here a float is the pair        *)
(* <<hi, lo>> standing for (hi * 2^28 + lo) * 2^-55, fine enough to hold    *)
(* the doubles 0.15 and 0.20 exactly.                                       *)

QLimb == 2^28

\* the literals 0.35, 0.30, 0.20 and 0.15 as doubles
SharpnessWeight == <<46976204, 214748364>>
ExposureWeight == <<40265318, 107374182>>
NoiseWeight == <<26843545, 161061274>>
ResolutionWeight == <<20132659, 53687091>>

\* bits of <<hi, lo>> beyond the 53 a binary64 keeps
QExcessBits(hi) ==
    IF hi < 2^25 THEN 0
    ELSE IF hi < 2^26 THEN 1
    ELSE IF hi < 2^27 THEN 2
    ELSE IF hi < 2^28 THEN 3
    ELSE IF hi < 2^29 THEN 4
    ELSE 5

\* The operations are functions: the argument of a function application is
\* evaluated once, before the body.
QRoundNearestEven[x \in Nat \X Nat] ==
    LET d    == QExcessBits(x[1])
        unit == 2^d
        r    == x[2] % unit
        q    == x[2] \div unit
        up   == d > 0 /\ (2 * r > unit \/ (2 * r = unit /\ q % 2 = 1))
        lo   == (q + (IF up THEN 1 ELSE 0)) * unit
    IN  IF lo = QLimb THEN <<x[1] + 1, 0>> ELSE <<x[1], lo>>

\* int * float
QFloatMul[k \in Nat, f \in Nat \X Nat] ==
    LET lo == k * f[2]
    IN  QRoundNearestEven[<<k * f[1] + (lo \div QLimb), lo % QLimb>>]

QFloatAdd[f \in Nat \X Nat, g \in Nat \X Nat] ==
    LET lo == f[2] + g[2]
    IN  QRoundNearestEven[<<f[1] + g[1] + (lo \div QLimb), lo % QLimb>>]

\* Python 3 round(float): the nearest integer, an exact half goes to the
\* even neighbour
PyRound[f \in Nat \X Nat] ==
    LET whole == f[1] \div 2^27
        frac  == f[1] % 2^27
    IN  IF frac > 2^26 \/ (frac = 2^26 /\ f[2] > 0) THEN whole + 1
        ELSE IF frac = 2^26 /\ f[2] = 0
        THEN (IF whole % 2 = 0 THEN whole ELSE whole + 1)
        ELSE whole

\* sharpness * 0.35 + exposure * 0.30 + noise * 0.20 + resolution * 0.15
WeightedAverage(sharpness_score, exposure_score, noise_score, resolution_score) ==
    QFloatAdd[QFloatAdd[QFloatAdd[QFloatMul[sharpness_score, SharpnessWeight],
                                  QFloatMul[exposure_score, ExposureWeight]],
                        QFloatMul[noise_score, NoiseWeight]],
              QFloatMul[resolution_score, ResolutionWeight]]

\* mutant: the sub-scores added without their weights
QualityScoreUnweighted(sharpness_score, exposure_score, noise_score, resolution_score) ==
    sharpness_score + exposure_score + noise_score + resolution_score

\* quality_score = int(round(weighted average))
quality_score(sharpness_score, exposure_score, noise_score, resolution_score) ==
    PyRound[WeightedAverage(sharpness_score, exposure_score, noise_score,
                            resolution_score)]

\* the value a sub-metric substitutes when its computation raises
NeutralScore == 3

\* What reading a file yields: whether cv2.imread decodes it, its width and
\* height, what each measurement gives (the Laplacian variance, the
\* percentages of clipped pixels, the noise estimate) and the set of
\* sub-metrics whose computation throws.

\* assess_sharpness: score from the Laplacian variance
assess_sharpness(img) ==
    IF "sharpness" \in img.raising THEN NeutralScore
    ELSE IF img.blur_variance > 500 THEN 5
    ELSE IF img.blur_variance > 300 THEN 4
    ELSE IF img.blur_variance > 150 THEN 3
    ELSE IF img.blur_variance > 75 THEN 2
    ELSE 1

\* assess_exposure: score from the clipped percentages, with its issues
assess_exposure(img) ==
    IF "exposure" \in img.raising THEN [score |-> NeutralScore, issues |-> <<>>]
    ELSE LET high_percent   == img.clipping[1]
             low_percent    == img.clipping[2]
             total_clipping == high_percent + low_percent
         IN  [score  |-> IF total_clipping < 1 THEN 5
                         ELSE IF total_clipping < 3 THEN 4
                         ELSE IF total_clipping < 8 THEN 3
                         ELSE IF total_clipping < 15 THEN 2
                         ELSE 1,
              issues |-> (IF high_percent > 5 THEN <<"overexposed">> ELSE <<>>)
                         \o (IF low_percent > 10 THEN <<"underexposed">> ELSE <<>>)]

\* assess_noise: score from the noise estimate
assess_noise(img) ==
    IF "noise" \in img.raising THEN NeutralScore
    ELSE IF img.noise_level < 5 THEN 5
    ELSE IF img.noise_level < 10 THEN 4
    ELSE IF img.noise_level < 15 THEN 3
    ELSE IF img.noise_level < 25 THEN 2
    ELSE 1

\* the default of thresholds.get('min_resolution_pixels', 2000000)
MinResolutionPixels == 2000000

\* assess_resolution(width, height); config holds the thresholds section under
\* its key min_resolution_pixels
assess_resolution(width, height) ==
    LET total_pixels == width * height
        min_pixels == Get(config, "min_resolution_pixels", MinResolutionPixels)
    IN  [score  |-> IF total_pixels >= 24000000 THEN 5
                    ELSE IF total_pixels >= 12000000 THEN 4
                    ELSE IF total_pixels >= 8000000 THEN 3
                    ELSE IF total_pixels >= min_pixels THEN 2
                    ELSE 1,
         issues |-> IF total_pixels < min_pixels
                    THEN <<"low_resolution">> ELSE <<>>]

\* mutant: the fallback record without its flag
ProcessingErrorRecordUnflagged(image_id) ==
    [image_id |-> image_id, quality_score |-> 3, sharpness |-> 3, exposure |-> 3,
     noise |-> 3, resolution |-> 3, issues |-> <<>>]

\* the record of the except branch of process_image
ProcessingErrorRecord(image_id) ==
    [image_id |-> image_id, quality_score |-> 3, sharpness |-> 3, exposure |-> 3,
     noise |-> 3, resolution |-> 3, issues |-> <<"processing_error">>]

\* process_image(image_path, metadata); img is what image_path reads as
process_image(stem, img, metadata) ==
    IF ~img.decodes
    THEN ProcessingErrorRecord(Get(metadata, "image_id", stem))
    ELSE LET sharpness_score  == assess_sharpness(img)
             exposure         == assess_exposure(img)
             noise_score      == assess_noise(img)
             resolution       == assess_resolution(img.width, img.height)
         IN  [image_id      |-> metadata.image_id,
              quality_score |-> quality_score(sharpness_score, exposure.score,
                                              noise_score, resolution.score),
              sharpness     |-> sharpness_score,
              exposure      |-> exposure.score,
              noise         |-> noise_score,
              resolution    |-> resolution.score,
              issues        |-> exposure.issues \o resolution.issues
                                \o (IF sharpness_score <= 2 THEN <<"motion_blur">> ELSE <<>>)
                                \o (IF noise_score <= 2 THEN <<"high_noise">> ELSE <<>>)]

----------------------------------------------------------------------------
(* select_best_image *)

DefaultScore == 3
DefaultResolution == 0

\* {img['image_id']: img for img in image_data}: a later record replaces an
\* earlier one with the same image_id
data_map(records) ==
    [id \in {records[k].image_id : k \in DOMAIN records} |->
        records[CHOOSE k \in DOMAIN records :
                    /\ records[k].image_id = id
                    /\ \A m \in DOMAIN records : records[m].image_id = id => m <= k]]

ScoredImage(img_id, img) ==
    [image_id   |-> img_id,
     score      |-> combined_score(Get(img, "technical_score", DefaultScore),
                                   Get(img, "aesthetic_score", DefaultScore)),
     resolution |-> Get(img, "resolution", DefaultResolution)]

RECURSIVE ScoreImages(_, _, _)
ScoreImages(image_ids, map, k) ==
    IF k > Len(image_ids) THEN <<>>
    ELSE IF image_ids[k] \notin DOMAIN map THEN ScoreImages(image_ids, map, k + 1)
    ELSE <<ScoredImage(image_ids[k], map[image_ids[k]])>>
         \o ScoreImages(image_ids, map, k + 1)

\* the sort key (x['score'], x['resolution']), compared as Python tuples
KeyLess(x, y) ==
    \/ FloatLess(x.score, y.score)
    \/ (x.score = y.score /\ x.resolution < y.resolution)

\* list.sort(key=..., reverse=True) is stable: an element goes after every
\* element already placed whose key is not smaller than its own
RECURSIVE InsertDescending(_, _)
InsertDescending(sorted, x) ==
    IF sorted = <<>> THEN <<x>>
    ELSE IF KeyLess(Head(sorted), x) THEN <<x>> \o sorted
    ELSE <<Head(sorted)>> \o InsertDescending(Tail(sorted), x)

RECURSIVE SortDescending(_, _)
SortDescending(items, k) ==
    IF k = 0 THEN <<>>
    ELSE InsertDescending(SortDescending(items, k - 1), items[k])

\* mutant: every record of the list is ranked, not the group's image_ids
SelectBestOfAllRecords(image_ids, records) ==
    LET all_ids       == [k \in DOMAIN records |-> records[k].image_id]
        scored_images == ScoreImages(all_ids, data_map(records), 1)
        sorted        == SortDescending(scored_images, Len(scored_images))
    IN  IF sorted # <<>> THEN sorted[1].image_id ELSE image_ids[1]

select_best_image(image_ids, records) ==
    LET scored_images == ScoreImages(image_ids, data_map(records), 1)
        sorted        == SortDescending(scored_images, Len(scored_images))
    IN  IF sorted # <<>> THEN sorted[1].image_id ELSE image_ids[1]

----------------------------------------------------------------------------
(* find_similar_groups *)

DuplicateDistance == 5
SimilarDistance == 15
DefaultHashThreshold == 10

\* mutant: the largest of the three distances
Max3(a, b, c) == IF a >= b /\ a >= c THEN a ELSE IF b >= c THEN b ELSE c

Min3(a, b, c) == IF a <= b /\ a <= c THEN a ELSE IF b <= c THEN b ELSE c

\* mutant: two empty hashes compare as equal instead of 999
MinDistanceEmptyMatches(img1, img2) ==
    LET d(hash1, hash2) == IF Len(hash1) # Len(hash2) THEN InvalidComparison
                           ELSE ZipDistance(hash1, hash2, 1)
    IN  Min3(d(img1.phash, img2.phash), d(img1.dhash, img2.dhash),
             d(img1.ahash, img2.ahash))

min_distance(img1, img2) ==
    Min3(hamming_distance(img1.phash, img2.phash),
         hamming_distance(img1.dhash, img2.dhash),
         hamming_distance(img1.ahash, img2.ahash))

\* the tier of a distance, "none" where the loop continues without adding
similarity_type(distance) ==
    IF distance <= DuplicateDistance THEN "duplicate"
    ELSE IF distance <= hash_threshold THEN "near-duplicate"
    ELSE IF distance <= SimilarDistance THEN "similar"
    ELSE "none"

\* mutant: the image is put in front of the group's image_ids
AddToGroupAtFront(group, img2, distance) ==
    [group EXCEPT !.image_ids = <<img2.image_id>> \o @,
                  !.similarity_type = similarity_type(distance),
                  !.similarity_metric = distance]

\* the body of the inner loop for one later image that passed the tier test
AddToGroup(group, img2, distance) ==
    [group EXCEPT !.image_ids = Append(@, img2.image_id),
                  !.similarity_type = similarity_type(distance),
                  !.similarity_metric = distance]

\* mutant: the inner loop does not skip images that are already grouped
RECURSIVE ScanLaterIgnoringGrouped(_, _, _, _, _)
ScanLaterIgnoringGrouped(records, i, j, group, grouped) ==
    IF j > Len(records) THEN [group |-> group, grouped |-> grouped]
    ELSE LET img2     == records[j]
             distance == min_distance(records[i], img2)
         IN  IF similarity_type(distance) = "none"
             THEN ScanLaterIgnoringGrouped(records, i, j + 1, group, grouped)
             ELSE ScanLaterIgnoringGrouped(records, i, j + 1,
                                           AddToGroup(group, img2, distance),
                                           grouped \cup {img2.image_id})

\* for j, img2 in enumerate(image_data[i + 1:], start=i + 1)
RECURSIVE ScanLater(_, _, _, _, _)
ScanLater(records, i, j, group, grouped) ==
    IF j > Len(records) THEN [group |-> group, grouped |-> grouped]
    ELSE LET img2     == records[j]
             distance == min_distance(records[i], img2)
         IN  IF img2.image_id \in grouped \/ similarity_type(distance) = "none"
             THEN ScanLater(records, i, j + 1, group, grouped)
             ELSE ScanLater(records, i, j + 1, AddToGroup(group, img2, distance),
                            grouped \cup {img2.image_id})

NewGroup(img1, group_counter) ==
    [group_id          |-> <<"group_", group_counter>>,
     image_ids         |-> <<img1.image_id>>,
     similarity_type   |-> "duplicate",
     similarity_metric |-> 0]

\* a group that kept more than one image: its best image is selected and it is saved
SaveGroup(group, records) ==
    [gid \in {"group_id", "image_ids", "similarity_type", "similarity_metric",
              "selected_best"} |->
        IF gid = "selected_best" THEN select_best_image(group.image_ids, records)
        ELSE group[gid]]

\* mutant: a group is saved whatever its size
RECURSIVE SeedLoopSavingSingletons(_, _, _, _, _)
SeedLoopSavingSingletons(records, i, grouped, groups, group_counter) ==
    IF i > Len(records) THEN groups
    ELSE IF records[i].image_id \in grouped
    THEN SeedLoopSavingSingletons(records, i + 1, grouped, groups, group_counter)
    ELSE LET scan == ScanLater(records, i, i + 1,
                               NewGroup(records[i], group_counter), grouped)
         IN  SeedLoopSavingSingletons(records, i + 1,
                                      scan.grouped \cup {records[i].image_id},
                                      Append(groups, SaveGroup(scan.group, records)),
                                      group_counter + 1)

\* for i, img1 in enumerate(image_data)
RECURSIVE SeedLoop(_, _, _, _, _)
SeedLoop(records, i, grouped, groups, group_counter) ==
    IF i > Len(records) THEN groups
    ELSE IF records[i].image_id \in grouped
    THEN SeedLoop(records, i + 1, grouped, groups, group_counter)
    ELSE LET scan == ScanLater(records, i, i + 1,
                               NewGroup(records[i], group_counter), grouped)
         IN  IF Len(scan.group.image_ids) > 1
             THEN SeedLoop(records, i + 1,
                           scan.grouped \cup {records[i].image_id},
                           Append(groups, SaveGroup(scan.group, records)),
                           group_counter + 1)
             ELSE SeedLoop(records, i + 1, scan.grouped, groups, group_counter)

find_similar_groups(records) == SeedLoop(records, 1, {}, <<>>, 0)

----------------------------------------------------------------------------
(* Inputs of find_similar_groups *)

\* a hash whose first k bits are set: two of them differ in |j - k| bits
HashOfBits(k) ==
    [p \in 1..HashHexLen |->
        IF p <= k \div 4 THEN "f"
        ELSE IF p = (k \div 4) + 1 THEN HexChars[2^(k % 4)]
        ELSE "0"]

\* the three hashes of an image whose hashes all have k bits set
SameHashes(k) == [phash |-> HashOfBits(k), dhash |-> HashOfBits(k), ahash |-> HashOfBits(k)]

\* compute_hash failed: return "", "", ""
FailedHashes == [phash |-> <<>>, dhash |-> <<>>, ahash |-> <<>>]

\* hashes that are close to another image's in one family only
MixedHashes == [phash |-> HashOfBits(33), dhash |-> <<>>, ahash |-> HashOfBits(5)]

HashTriples ==
    {SameHashes(k) : k \in {0, 5, 15, 33}} \cup {FailedHashes, MixedHashes}

Stems == <<"IMG_1", "IMG_2", "IMG_3", "IMG_4", "IMG_5", "IMG_6">>

\* the image_ids of n files: path stems, all distinct, or two neighbours at
\* the head of the sorted file list sharing one stem (IMG_1.jpg, IMG_1.png)
StemLists(n) ==
    {[k \in 1..n |-> Stems[k]]} \cup
    {[k \in 1..n |-> IF k = d + 1 THEN Stems[d] ELSE Stems[k]] :
        d \in (1..2) \cap (1..(n - 1))}

\* the record DuplicateDetectionAgent.run appends for one image
ImageRecord(id, hashes, technical, aesthetic, resolution) ==
    [image_id |-> id, phash |-> hashes.phash, dhash |-> hashes.dhash,
     ahash |-> hashes.ahash, technical_score |-> technical,
     aesthetic_score |-> aesthetic, resolution |-> resolution]

\* a record of a direct caller that carries no scores
BareRecord(id, hashes) ==
    [image_id |-> id, phash |-> hashes.phash, dhash |-> hashes.dhash,
     ahash |-> hashes.ahash]

EmptyDict == [key \in {} |-> <<>>]

HashThresholds == {3, DefaultHashThreshold, 20}

\* the widest hash compute_hash produces (hash_size = 8): 64 bits
HashBits == 4 * HashHexLen

\* the duplicate_detection section of the configuration: no hash_threshold key,
\* or one of HashThresholds, or a value outside 0..HashBits
DuplicateConfigs ==
    {EmptyDict} \cup
    {[hash_threshold |-> t] : t \in (HashThresholds \ {DefaultHashThreshold})
                                     \cup {-1, HashBits + 1}}

\* the value of hash_threshold while no agent exists
NotConstructed == "no agent"

\* DuplicateDetectionAgent.__init__(config, logger)
DuplicateDetectionAgentInit ==
    /\ pc = "DuplicateDetectionAgent"
    /\ hash_threshold' = Get(config, "hash_threshold", DefaultHashThreshold)
    /\ pc' = "find_similar_groups"
    /\ UNCHANGED <<pool_vars, unit_vars, image_paths, outputs, validations,
                   agent_performance, config, image_data, similarity_groups>>

\* (technical_score, aesthetic_score) pairs: 5,2 and 2,4 give the same double
\* 3.2; 5,1 and 2,3 both stand for 2.6
ScorePairs == {<<5, 2>>, <<3, 5>>, <<4, 3>>, <<2, 4>>, <<5, 1>>, <<2, 3>>}

Resolutions == {12000000, 24000000}

\* what a record of a list with varying scores holds besides its image_id
ScoredKinds ==
    {[hashes |-> SameHashes(0), scored |-> TRUE, technical |-> s[1],
      aesthetic |-> s[2], resolution |-> r] : s \in ScorePairs, r \in Resolutions}
    \cup {[hashes |-> SameHashes(0), scored |-> FALSE],
          [hashes |-> SameHashes(33), scored |-> FALSE]}

ScoredRecord(id, kind) ==
    IF kind.scored
    THEN ImageRecord(id, kind.hashes, kind.technical, kind.aesthetic, kind.resolution)
    ELSE BareRecord(id, kind.hashes)

\* the scores the quality and aesthetic agents emit
ScoreRange == 1..5

\* DuplicateDetectionAgent.find_similar_groups(image_data)
FindSimilarGroupsCall ==
    /\ pc = "find_similar_groups"
    /\ similarity_groups' = find_similar_groups(image_data)
    /\ pc' = "returned"
    /\ UNCHANGED <<pool_vars, unit_vars, image_paths, outputs, validations, agent_performance,
                   config, hash_threshold, image_data>>

\* an unreadable file
Undecodable == [decodes |-> FALSE]

IdlePool == futures = <<>> /\ assessment_list = <<>>

IdleProcess == image = Undecodable /\ assessment = EmptyDict

IdleHamming == arg_hash1 = <<>> /\ arg_hash2 = <<>> /\ returned_distance = 0

InitCall ==
    /\ image_paths = <<>>
    /\ outputs = EmptyDict
    /\ validations = <<>>
    /\ agent_performance = <<>>
    /\ similarity_groups = <<>>
    /\ IdlePool
    /\ IdleProcess
    /\ IdleHamming

\* lists of up to MaxImages records whose hashes vary, every score at the
\* value run() fills in when the stage records are missing
InitGroups ==
    /\ InitCall
    /\ pc = "DuplicateDetectionAgent"
    /\ config \in DuplicateConfigs
    /\ hash_threshold = NotConstructed
    /\ \E n \in 0..MaxImages :
          \E ids \in StemLists(n), hs \in [1..n -> HashTriples] :
              image_data = [k \in 1..n |->
                              ImageRecord(ids[k], hs[k], DefaultScore, DefaultScore,
                                          DefaultResolution)]

\* lists with distinct image_ids whose scores vary: up to MaxScored records,
\* or two images in one group with every combination of scores
InitSelect ==
    /\ InitCall
    /\ pc = "find_similar_groups"
    /\ config = EmptyDict
    /\ hash_threshold = DefaultHashThreshold
    /\ \/ \E n \in 1..MaxScored :
             \E kinds \in [1..n -> ScoredKinds] :
                 image_data = [k \in 1..n |-> ScoredRecord(Stems[k], kinds[k])]
       \/ \E t1 \in ScoreRange, a1 \in ScoreRange, t2 \in ScoreRange, a2 \in ScoreRange,
             r1 \in Resolutions, r2 \in Resolutions :
                 image_data = <<ImageRecord(Stems[1], SameHashes(0), t1, a1, r1),
                                ImageRecord(Stems[2], SameHashes(0), t2, a2, r2)>>

NextCall == FindSimilarGroupsCall

NextGroups ==
    \/ DuplicateDetectionAgentInit
    \/ FindSimilarGroupsCall

SpecGroups == InitGroups /\ [][NextGroups]_vars

SpecSelect == InitSelect /\ [][NextCall]_vars

----------------------------------------------------------------------------
(* process_image called on one file *)

BlurVariances == {50, 100, 200, 400, 600}

\* <<high_percent, low_percent>>
Clippings == {<<0, 0>>, <<2, 0>>, <<6, 0>>, <<0, 12>>, <<6, 12>>}

NoiseLevels == {2, 7, 12, 20, 30}

\* <<width, height>>
Dimensions == {<<6000, 4000>>, <<4000, 3000>>, <<4000, 2000>>, <<2000, 1000>>,
               <<1000, 1000>>}

SubMetrics == {"sharpness", "exposure", "noise"}

DecodedImage(blur_variance, clipping, noise_level, dimensions, raising) ==
    [decodes |-> TRUE, blur_variance |-> blur_variance, clipping |-> clipping,
     noise_level |-> noise_level, width |-> dimensions[1], height |-> dimensions[2],
     raising |-> raising]

IdleWorkflow ==
    /\ image_paths = <<>>
    /\ outputs = EmptyDict
    /\ validations = <<>>
    /\ agent_performance = <<>>
    /\ hash_threshold = DefaultHashThreshold
    /\ image_data = <<>>
    /\ similarity_groups = <<>>

\* QualityAssessmentAgent.process_image(image_path, metadata)
ProcessImageCall ==
    /\ pc = "process_image"
    /\ assessment' = process_image(Stems[1], image, [image_id |-> Stems[1]])
    /\ pc' = "returned"
    /\ UNCHANGED <<pool_vars, image, arg_hash1, arg_hash2, returned_distance,
                   image_paths, outputs, validations, agent_performance,
                   config, hash_threshold, image_data, similarity_groups>>

\* the thresholds section of the configuration: no min_resolution_pixels key,
\* or a minimum below or above the default
ThresholdConfigs ==
    {EmptyDict} \cup {[min_resolution_pixels |-> m] : m \in {1000000, 10000000}}

InitProcess ==
    /\ IdleWorkflow
    /\ config \in ThresholdConfigs
    /\ IdlePool
    /\ IdleHamming
    /\ pc = "process_image"
    /\ assessment = EmptyDict
    /\ \/ image = Undecodable
       \/ \E blur_variance \in BlurVariances, clipping \in Clippings,
             noise_level \in NoiseLevels, dimensions \in Dimensions,
             raising \in SUBSET SubMetrics :
                 image = DecodedImage(blur_variance, clipping, noise_level,
                                      dimensions, raising)

NextProcess == ProcessImageCall

SpecProcess == InitProcess /\ [][NextProcess]_vars

----------------------------------------------------------------------------
(* hamming_distance called on two hashes *)

\* hex digits the hashes below are written with
HashAlphabet == {"0", "1", "7", "a", "f"}

\* strings of exactly n characters over HashAlphabet
HashStrings(n) == [1..n -> HashAlphabet]

\* values handed to hamming_distance: the empty string compute_hash returns
\* on failure, strings of up to MaxHashLen digits, every single hex digit,
\* and hashes of the full length
HashValues ==
    (UNION {HashStrings(n) : n \in 0..MaxHashLen})
    \cup {<<HexChars[k]>> : k \in 1..16}
    \cup {HashOfBits(k) : k \in {0, 5, 15, 33}}

\* DuplicateDetectionAgent.hamming_distance(hash1, hash2)
HammingDistanceCall ==
    /\ pc = "hamming_distance"
    /\ returned_distance' = hamming_distance(arg_hash1, arg_hash2)
    /\ pc' = "returned"
    /\ UNCHANGED <<pool_vars, image, assessment, arg_hash1, arg_hash2,
                   image_paths, outputs, validations, agent_performance,
                   config, hash_threshold, image_data, similarity_groups>>

InitHamming ==
    /\ IdleWorkflow
    /\ config = EmptyDict
    /\ IdlePool
    /\ IdleProcess
    /\ pc = "hamming_distance"
    /\ arg_hash1 \in HashValues
    /\ arg_hash2 \in HashValues
    /\ returned_distance = 0

NextHamming == HammingDistanceCall

SpecHamming == InitHamming /\ [][NextHamming]_vars

----------------------------------------------------------------------------
(* Strings whose characters the orchestrator works on *)

\* the characters of a Python string
Chars(s) ==
    CASE s = "Metadata Extraction" ->
            <<"M", "e", "t", "a", "d", "a", "t", "a", " ", "E", "x", "t", "r", "a", "c", "t", "i", "o", "n">>
      [] s = "Quality Assessment" ->
            <<"Q", "u", "a", "l", "i", "t", "y", " ", "A", "s", "s", "e", "s", "s", "m", "e", "n", "t">>
      [] s = "Aesthetic Assessment" ->
            <<"A", "e", "s", "t", "h", "e", "t", "i", "c", " ", "A", "s", "s", "e", "s", "s", "m", "e", "n", "t">>
      [] s = "Duplicate Detection" ->
            <<"D", "u", "p", "l", "i", "c", "a", "t", "e", " ", "D", "e", "t", "e", "c", "t", "i", "o", "n">>
      [] s = "Filtering & Categorization" ->
            <<"F", "i", "l", "t", "e", "r", "i", "n", "g", " ", "&", " ", "C", "a", "t", "e", "g", "o", "r", "i", "z", "a", "t", "i", "o", "n">>
      [] s = "Caption Generation" ->
            <<"C", "a", "p", "t", "i", "o", "n", " ", "G", "e", "n", "e", "r", "a", "t", "i", "o", "n">>
      [] s = "Website Generation" ->
            <<"W", "e", "b", "s", "i", "t", "e", " ", "G", "e", "n", "e", "r", "a", "t", "i", "o", "n">>
      [] s = "metadata" ->
            <<"m", "e", "t", "a", "d", "a", "t", "a">>
      [] s = "quality" ->
            <<"q", "u", "a", "l", "i", "t", "y">>
      [] s = "aesthetic" ->
            <<"a", "e", "s", "t", "h", "e", "t", "i", "c">>
      [] s = "duplicates" ->
            <<"d", "u", "p", "l", "i", "c", "a", "t", "e", "s">>
      [] s = "filtering" ->
            <<"f", "i", "l", "t", "e", "r", "i", "n", "g">>
      [] s = "captions" ->
            <<"c", "a", "p", "t", "i", "o", "n", "s">>

UpperCase == <<"A", "B", "C", "D", "E", "F", "G", "H", "I", "J", "K", "L", "M",
               "N", "O", "P", "Q", "R", "S", "T", "U", "V", "W", "X", "Y", "Z">>
LowerCase == <<"a", "b", "c", "d", "e", "f", "g", "h", "i", "j", "k", "l", "m",
               "n", "o", "p", "q", "r", "s", "t", "u", "v", "w", "x", "y", "z">>

\* str.lower()
Lower(str) ==
    [k \in DOMAIN str |->
        IF \E u \in DOMAIN UpperCase : UpperCase[u] = str[k]
        THEN LowerCase[CHOOSE u \in DOMAIN UpperCase : UpperCase[u] = str[k]]
        ELSE str[k]]

StartsWith(str, old) ==
    Len(str) >= Len(old) /\ SubSeq(str, 1, Len(old)) = old

\* str.replace(old, new)
RECURSIVE Replace(_, _, _)
Replace(str, old, new) ==
    IF str = <<>> THEN <<>>
    ELSE IF StartsWith(str, old)
    THEN new \o Replace(SubSeq(str, Len(old) + 1, Len(str)), old, new)
    ELSE <<Head(str)>> \o Replace(Tail(str), old, new)

\* key = name.lower().replace(' & ', '_').replace(' ', '_')
StageKey(name) ==
    Replace(Replace(Lower(Chars(name)), <<" ", "&", " ">>, <<"_">>), <<" ">>, <<"_">>)

\* d[key] = value
Put(d, key, value) ==
    [k \in DOMAIN d \cup {key} |-> IF k = key THEN value ELSE d[k]]

----------------------------------------------------------------------------
(* The agents' run methods, as run_workflow uses them.  A file of the batch *)
(* is its stem and what decoding it yields: its three hashes, the scores    *)
(* the quality and aesthetic agents compute for it, and its dimensions.     *)

FileKinds ==
    {[hashes |-> SameHashes(0),
      image |-> DecodedImage(600, <<0, 0>>, 2, <<6000, 4000>>, {}),
      overall_aesthetic |-> 2, width |-> 6000, height |-> 4000, flags |-> FALSE],
     [hashes |-> SameHashes(5),
      image |-> DecodedImage(100, <<0, 12>>, 20, <<4000, 3000>>, {}),
      overall_aesthetic |-> 4, width |-> 4000, height |-> 3000, flags |-> TRUE],
     \* an unreadable file: every agent falls back to its per-image default
     [hashes |-> FailedHashes, image |-> Undecodable,
      overall_aesthetic |-> 3, width |-> 0, height |-> 0, flags |-> TRUE]}

\* as_completed yields the futures in completion order: the submission order
\* and its reverse are the schedules explored
CompletionOrders(n) == {[k \in 1..n |-> k], [k \in 1..n |-> n + 1 - k]}

\* status = "success" if not issues else ("warning" if len(issues) < len(image_paths) else "error")
\* mutant: a batch with issues is never worse than a warning
BatchStatusWithoutError(num_issues, num_images) ==
    IF num_issues = 0 THEN "success" ELSE "warning"

\* status = "success" if not issues else ("warning" if len(issues) <
\* len(image_paths) else "error")
BatchStatus(num_issues, num_images) ==
    IF num_issues = 0 THEN "success"
    ELSE IF num_issues < num_images THEN "warning"
    ELSE "error"

MetadataRun(paths, order) ==
    LET issues == {k \in DOMAIN paths : paths[k].content.flags}
    IN  [output |->
            [k \in DOMAIN paths |->
                [image_id   |-> paths[order[k]].stem,
                 dimensions |-> [width  |-> paths[order[k]].content.width,
                                 height |-> paths[order[k]].content.height]]],
         validation |->
            [agent |-> "Metadata Extraction", stage |-> "ingestion",
             status |-> BatchStatus(Cardinality(issues), Len(paths))]]

\* metadata = metadata_map.get(image_id, {'image_id': image_id})
TaskMetadata(metadata_list, image_id) ==
    Get(data_map(metadata_list), image_id, [image_id |-> image_id])

\* what QualityAssessmentAgent.run returns once the loop over
\* as_completed(futures) has collected the records
QualityRunResult(paths, collected) ==
    LET issues == {k \in DOMAIN collected : collected[k].issues # <<>>}
    IN  [output |-> collected,
         validation |->
            [agent |-> "Technical Assessment", stage |-> "scoring",
             status |-> BatchStatus(Cardinality(issues), Len(paths))]]

\* QualityAssessmentAgent.run when the futures are yielded in the given order
QualityRun(paths, metadata_list, order) ==
    QualityRunResult(paths,
        [k \in DOMAIN paths |->
            process_image(paths[order[k]].stem, paths[order[k]].content.image,
                          TaskMetadata(metadata_list, paths[order[k]].stem))])

AestheticRun(paths, metadata_list, order) ==
    [output |->
        [k \in DOMAIN paths |->
            [image_id          |-> paths[order[k]].stem,
             overall_aesthetic |-> paths[order[k]].content.overall_aesthetic]],
     validation |->
        [agent |-> "Aesthetic Assessment", stage |-> "rating", status |-> "success"]]

\* DuplicateDetectionAgent.run: the list it builds for find_similar_groups
DuplicateImageData(paths, quality_assessments, aesthetic_assessments, metadata_list) ==
    LET quality_map   == data_map(quality_assessments)
        aesthetic_map == data_map(aesthetic_assessments)
        metadata_map  == data_map(metadata_list)
    IN  [k \in DOMAIN paths |->
            LET image_id   == paths[k].stem
                quality    == Get(quality_map, image_id, EmptyDict)
                aesthetic  == Get(aesthetic_map, image_id, EmptyDict)
                metadata   == Get(metadata_map, image_id, EmptyDict)
                dimensions == Get(metadata, "dimensions", EmptyDict)
            IN  ImageRecord(image_id, paths[k].content.hashes,
                            Get(quality, "quality_score", DefaultScore),
                            Get(aesthetic, "overall_aesthetic", DefaultScore),
                            Get(dimensions, "width", 0) * Get(dimensions, "height", 0))]

\* compute_hash logs its own failure and returns "", "", "", so nothing in the
\* try block of the loop raises and the issues list of run stays empty
DuplicateRun(paths, quality_assessments, aesthetic_assessments, metadata_list) ==
    LET issues == <<>>
    IN  [output |-> find_similar_groups(
                        DuplicateImageData(paths, quality_assessments,
                                           aesthetic_assessments, metadata_list)),
         validation |->
            [agent |-> "Duplicate Detection", stage |-> "grouping",
             status |-> IF issues = <<>> THEN "success" ELSE "warning",
             issues |-> issues]]

\* the later agents return one record per image (the website agent one
\* dictionary); what the records hold is outside this model
PerImageRun(paths, agent, stage) ==
    [output |-> [k \in DOMAIN paths |-> [image_id |-> paths[k].stem]],
     validation |-> [agent |-> agent, stage |-> stage, status |-> "success"]]

----------------------------------------------------------------------------
(* QualityAssessmentAgent.run: the main thread submits one process_image    *)
(* task per path to a ThreadPoolExecutor, then appends the results in the   *)
(* order as_completed yields them; leaving the with block waits for the     *)
(* pool.                                                                    *)

\* agent_config.get('parallel_workers', 2)
ParallelWorkers == 2

\* the metadata_list argument, as run_workflow passes it
RunMetadataList == Get(outputs, Chars("metadata"), <<>>)

InQualityRun == pc = "QualityAssessmentAgent.run"

Running == {k \in DOMAIN futures : futures[k].state = "running"}

Pending == {k \in DOMAIN futures : futures[k].state = "pending"}

\* mutant: the run returns as soon as the futures are submitted
AllSubmitted(fs, paths) == Len(fs) = Len(paths)

\* every path has its future and as_completed has yielded each of them
AllCollected(fs, paths) ==
    /\ Len(fs) = Len(paths)
    /\ \A k \in DOMAIN fs : fs[k].state = "finished" /\ fs[k].yielded

\* futures.append(executor.submit(self.process_image, path, metadata))
Submit ==
    /\ InQualityRun
    /\ Len(futures) < Len(image_paths)
    /\ futures' = Append(futures, [state |-> "pending", yielded |-> FALSE,
                                   result |-> EmptyDict])
    /\ UNCHANGED <<assessment_list, unit_vars, image_paths, pc, outputs, validations,
                   agent_performance, config, hash_threshold, image_data, similarity_groups>>

\* a free worker thread takes the oldest queued task
WorkerStart ==
    /\ InQualityRun
    /\ Pending # {}
    /\ Cardinality(Running) < ParallelWorkers
    /\ LET k == CHOOSE i \in Pending : \A j \in Pending : i <= j
       IN  futures' = [futures EXCEPT ![k].state = "running"]
    /\ UNCHANGED <<assessment_list, unit_vars, image_paths, pc, outputs, validations,
                   agent_performance, config, hash_threshold, image_data, similarity_groups>>

\* a worker thread returns from process_image
WorkerFinish ==
    /\ InQualityRun
    /\ \E k \in Running :
          futures' = [futures EXCEPT
                        ![k].state = "finished",
                        ![k].result =
                            process_image(image_paths[k].stem,
                                          image_paths[k].content.image,
                                          TaskMetadata(RunMetadataList,
                                                       image_paths[k].stem))]
    /\ UNCHANGED <<assessment_list, unit_vars, image_paths, pc, outputs, validations,
                   agent_performance, config, hash_threshold, image_data, similarity_groups>>

\* for future in as_completed(futures): assessment_list.append(future.result())
\* as_completed yields the futures already finished in no particular order
\* and the others as they finish
Collect ==
    /\ InQualityRun
    /\ Len(futures) = Len(image_paths)
    /\ \E k \in DOMAIN futures :
          /\ futures[k].state = "finished"
          /\ ~futures[k].yielded
          /\ futures' = [futures EXCEPT ![k].yielded = TRUE]
          /\ assessment_list' = Append(assessment_list, futures[k].result)
    /\ UNCHANGED <<unit_vars, image_paths, pc, outputs, validations,
                   agent_performance, config, hash_threshold, image_data, similarity_groups>>

\* QualityAssessmentAgent.run called on its own: it returns to a caller that
\* hands the list to DuplicateDetectionAgent.run
QualityRunReturn ==
    /\ InQualityRun
    /\ AllCollected(futures, image_paths)
    /\ validations' = Append(validations,
                             QualityRunResult(image_paths, assessment_list).validation)
    /\ pc' = "DuplicateDetectionAgent.run"
    /\ UNCHANGED <<pool_vars, unit_vars, image_paths, outputs, agent_performance,
                   config, hash_threshold, image_data, similarity_groups>>

\* DuplicateDetectionAgent.run(image_paths, quality_assessments,
\* aesthetic_assessments, metadata_list) on the collected quality records
DuplicateRunCall ==
    /\ pc = "DuplicateDetectionAgent.run"
    /\ LET order         == [k \in DOMAIN image_paths |-> k]
           metadata_list == MetadataRun(image_paths, order).output
           aesthetic     == AestheticRun(image_paths, metadata_list, order).output
       IN  /\ image_data' = DuplicateImageData(image_paths, assessment_list,
                                               aesthetic, metadata_list)
           /\ similarity_groups' = DuplicateRun(image_paths, assessment_list,
                                                aesthetic, metadata_list).output
    /\ pc' = "returned"
    /\ UNCHANGED <<pool_vars, unit_vars, image_paths, outputs, validations,
                   agent_performance, config, hash_threshold>>

\* batches of up to MaxPool files; two files may share a stem
InitScoring ==
    /\ \E n \in 0..MaxPool :
          \E ids \in StemLists(n), kinds \in [1..n -> FileKinds] :
              image_paths = [k \in 1..n |-> [stem |-> ids[k], content |-> kinds[k]]]
    /\ pc = "QualityAssessmentAgent.run"
    /\ outputs = EmptyDict
    /\ validations = <<>>
    /\ agent_performance = <<>>
    /\ config = EmptyDict
    /\ hash_threshold = DefaultHashThreshold
    /\ image_data = <<>>
    /\ similarity_groups = <<>>
    /\ IdlePool
    /\ IdleProcess
    /\ IdleHamming

NextScoring ==
    \/ Submit
    \/ WorkerStart
    \/ WorkerFinish
    \/ Collect
    \/ QualityRunReturn
    \/ DuplicateRunCall

\* the main thread and each worker thread that can take a step of the run
\* eventually takes one
SpecScoring ==
    /\ InitScoring
    /\ [][NextScoring]_vars
    /\ WF_vars(Submit)
    /\ WF_vars(WorkerStart)
    /\ WF_vars(WorkerFinish)
    /\ WF_vars(Collect)
    /\ WF_vars(QualityRunReturn)

----------------------------------------------------------------------------
(* TravelPhotoOrchestrator *)

StageOrder ==
    <<"Metadata Extraction", "Quality Assessment", "Aesthetic Assessment",
      "Duplicate Detection", "Filtering & Categorization", "Caption Generation",
      "Website Generation">>

\* mutant: a stage is the last one attempted
AfterStageStopping(name) == "final_report"

\* run_workflow calls the stages one after the other, then the final report
AfterStage(name) ==
    LET k == CHOOSE i \in DOMAIN StageOrder : StageOrder[i] = name
    IN  IF k < Len(StageOrder) THEN StageOrder[k + 1] ELSE "final_report"

\* len(output) if isinstance(output, list) else 1
ImagesProcessed(name, output) ==
    IF name = "Website Generation" THEN 1 ELSE Len(output)

\* _run_agent_stage(name, agent_func): agent_func returns result, or raises
RunAgentStage(name, raises, result) ==
    /\ pc' = AfterStage(name)
    /\ IF raises
       THEN /\ validations' = Append(validations,
                    [agent |-> name, stage |-> "execution", status |-> "error"])
            /\ agent_performance' = Append(agent_performance,
                    [agent |-> name, images_processed |-> 0, success_rate |-> "0.0"])
            /\ UNCHANGED outputs
       ELSE /\ outputs' = Put(outputs, StageKey(name), result.output)
            /\ validations' = Append(validations, result.validation)
            /\ agent_performance' = Append(agent_performance,
                    [agent |-> name,
                     images_processed |-> ImagesProcessed(name, result.output),
                     success_rate |-> IF result.validation.status = "success"
                                      THEN "1.0" ELSE "0.5"])

\* if not image_paths: return self._generate_empty_report()
EmptyBatch ==
    /\ pc = "run_workflow"
    /\ image_paths = <<>>
    /\ pc' = "done"
    /\ UNCHANGED <<pool_vars, unit_vars, image_paths, outputs, validations, agent_performance,
                   config, hash_threshold, image_data, similarity_groups>>

MetadataStage ==
    /\ pc = "run_workflow"
    /\ image_paths # <<>>
    /\ \E raises \in BOOLEAN, order \in CompletionOrders(Len(image_paths)) :
          RunAgentStage("Metadata Extraction", raises,
                        MetadataRun(image_paths, order))
    /\ UNCHANGED <<pool_vars, unit_vars, image_paths, config, hash_threshold, image_data, similarity_groups>>

\* the Quality Assessment stage is entered: agent_func raises before any task
\* is submitted, or QualityAssessmentAgent.run starts its worker pool
QualityStage ==
    /\ pc = "Quality Assessment"
    /\ \/ /\ RunAgentStage("Quality Assessment", TRUE, EmptyDict)
          /\ UNCHANGED pool_vars
       \/ /\ pc' = "QualityAssessmentAgent.run"
          /\ futures' = <<>>
          /\ assessment_list' = <<>>
          /\ UNCHANGED <<outputs, validations, agent_performance>>
    /\ UNCHANGED <<unit_vars, image_paths, config, hash_threshold, image_data, similarity_groups>>

\* QualityAssessmentAgent.run returns to _run_agent_stage
QualityStageReturn ==
    /\ InQualityRun
    /\ AllCollected(futures, image_paths)
    /\ RunAgentStage("Quality Assessment", FALSE,
                     QualityRunResult(image_paths, assessment_list))
    /\ UNCHANGED <<pool_vars, unit_vars, image_paths, config, hash_threshold, image_data,
                   similarity_groups>>

AestheticStage ==
    /\ pc = "Aesthetic Assessment"
    /\ \E raises \in BOOLEAN, order \in CompletionOrders(Len(image_paths)) :
          RunAgentStage("Aesthetic Assessment", raises,
                        AestheticRun(image_paths, Get(outputs, Chars("metadata"), <<>>),
                                     order))
    /\ UNCHANGED <<pool_vars, unit_vars, image_paths, config, hash_threshold, image_data, similarity_groups>>

DuplicateStage ==
    /\ pc = "Duplicate Detection"
    /\ \E raises \in BOOLEAN :
          LET quality_assessments   == Get(outputs, Chars("quality"), <<>>)
              aesthetic_assessments == Get(outputs, Chars("aesthetic"), <<>>)
              metadata_list         == Get(outputs, Chars("metadata"), <<>>)
              result == DuplicateRun(image_paths, quality_assessments,
                                     aesthetic_assessments, metadata_list)
          IN  /\ RunAgentStage("Duplicate Detection", raises, result)
              /\ IF raises
                 THEN UNCHANGED <<image_data, similarity_groups>>
                 ELSE /\ image_data' = DuplicateImageData(image_paths,
                                          quality_assessments, aesthetic_assessments,
                                          metadata_list)
                      /\ similarity_groups' = result.output
    /\ UNCHANGED <<pool_vars, unit_vars, image_paths, config, hash_threshold>>

FilteringStage ==
    /\ pc = "Filtering & Categorization"
    /\ \E raises \in BOOLEAN :
          RunAgentStage("Filtering & Categorization", raises,
                        PerImageRun(image_paths, "Filtering & Categorization",
                                    "categorization"))
    /\ UNCHANGED <<pool_vars, unit_vars, image_paths, config, hash_threshold, image_data, similarity_groups>>

CaptionStage ==
    /\ pc = "Caption Generation"
    /\ \E raises \in BOOLEAN :
          RunAgentStage("Caption Generation", raises,
                        PerImageRun(image_paths, "Caption Generation", "captioning"))
    /\ UNCHANGED <<pool_vars, unit_vars, image_paths, config, hash_threshold, image_data, similarity_groups>>

WebsiteStage ==
    /\ pc = "Website Generation"
    /\ \E raises \in BOOLEAN :
          RunAgentStage("Website Generation", raises,
                        [output |-> [duplicates |-> Get(outputs, Chars("duplicates"), <<>>)],
                         validation |-> [agent |-> "Website Generation",
                                         stage |-> "generation", status |-> "success"]])
    /\ UNCHANGED <<pool_vars, unit_vars, image_paths, config, hash_threshold, image_data, similarity_groups>>

\* _generate_final_report, _save_all_outputs, return final_report
FinalReport ==
    /\ pc = "final_report"
    /\ pc' = "done"
    /\ UNCHANGED <<pool_vars, unit_vars, image_paths, outputs, validations, agent_performance,
                   config, hash_threshold, image_data, similarity_groups>>

Init ==
    /\ \E n \in 0..MaxBatch :
          \E kinds \in [1..n -> FileKinds] :
              image_paths = [k \in 1..n |-> [stem |-> Stems[k], content |-> kinds[k]]]
    /\ pc = "run_workflow"
    /\ outputs = EmptyDict
    /\ validations = <<>>
    /\ agent_performance = <<>>
    /\ config = EmptyDict
    /\ hash_threshold = DefaultHashThreshold
    /\ image_data = <<>>
    /\ similarity_groups = <<>>
    /\ IdlePool
    /\ IdleProcess
    /\ IdleHamming

Next ==
    \/ EmptyBatch
    \/ MetadataStage
    \/ QualityStage
    \/ Submit
    \/ WorkerStart
    \/ WorkerFinish
    \/ Collect
    \/ QualityStageReturn
    \/ AestheticStage
    \/ DuplicateStage
    \/ FilteringStage
    \/ CaptionStage
    \/ WebsiteStage
    \/ FinalReport

Spec == Init /\ [][Next]_vars

----------------------------------------------------------------------------
(* Properties *)

Returned == pc = "returned"

DistinctIds(records) ==
    \A j, k \in DOMAIN records : j # k => records[j].image_id # records[k].image_id

\* the record of image_data with the given image_id (image_ids distinct)
RecordOf(id) == image_data[CHOOSE k \in DOMAIN image_data : image_data[k].image_id = id]

PositionOf(id) == CHOOSE k \in DOMAIN image_data : image_data[k].image_id = id

\* distance of the group's k-th image to its seed
SeedDistance(group, k) ==
    min_distance(RecordOf(group.image_ids[1]), RecordOf(group.image_ids[k]))

Absorbed(group) == 2..Len(group.image_ids)

StageReturned(name) == StageKey(name) \in DOMAIN outputs

\* what a stage stored for an image
Stored(name, id) == data_map(outputs[StageKey(name)])[id]

\* C1: in run_workflow, the quality score, aesthetic score and resolution of
\* every record handed to the Duplicate Detection stage are the values the
\* Quality, Aesthetic and Metadata stages produced and stored for that image.
C1_StageOutputsReachGrouping ==
    StageReturned("Duplicate Detection") =>
        \A k \in DOMAIN image_data :
            LET img == image_data[k] IN
            /\ StageReturned("Quality Assessment") =>
                 img.technical_score
                    = Stored("Quality Assessment", img.image_id).quality_score
            /\ StageReturned("Aesthetic Assessment") =>
                 img.aesthetic_score
                    = Stored("Aesthetic Assessment", img.image_id).overall_aesthetic
            /\ StageReturned("Metadata Extraction") =>
                 img.resolution
                    = Stored("Metadata Extraction", img.image_id).dimensions.width
                      * Stored("Metadata Extraction", img.image_id).dimensions.height

\* C2: after find_similar_groups returns, no image_id occurs in more than
\* one emitted group, whatever the hashes and order of the input list.
C2_NoImageInTwoGroups ==
    Returned =>
        \A g, h \in DOMAIN similarity_groups :
            g # h => Range(similarity_groups[g].image_ids)
                     \cap Range(similarity_groups[h].image_ids) = {}

\* two groups were emitted
C2_Witness == Returned /\ Len(similarity_groups) >= 2

\* C3: every emitted group has at least 2 image_ids; a seed that absorbed no
\* other image produced no group record.
C3_GroupsHaveTwoMembers ==
    Returned =>
        \A g \in DOMAIN similarity_groups : Len(similarity_groups[g].image_ids) >= 2

\* a group was emitted and some image of the list is in no group
C3_Witness ==
    /\ Returned
    /\ similarity_groups # <<>>
    /\ \E k \in DOMAIN image_data :
          \A g \in DOMAIN similarity_groups :
              image_data[k].image_id \notin Range(similarity_groups[g].image_ids)

\* C4: selected_best is one of the group's image_ids, also when records
\* carry no scores and the defaults are used.
C4_SelectedBestIsMember ==
    Returned =>
        \A g \in DOMAIN similarity_groups :
            similarity_groups[g].selected_best \in Range(similarity_groups[g].image_ids)

\* a group with a member without scores and a member with them
C4_Witness ==
    /\ Returned
    /\ \E g \in DOMAIN similarity_groups :
          LET ids == Range(similarity_groups[g].image_ids) IN
          /\ \E id \in ids : "technical_score" \notin DOMAIN RecordOf(id)
          /\ \E id \in ids : "technical_score" \in DOMAIN RecordOf(id)

SetMin(S) == CHOOSE x \in S : \A y \in S : x <= y

\* C5: similarity_metric is the minimum, over the members absorbed into the
\* group, of their min-of-three-hash distance to the seed.
C5_MetricIsMinimumDistance ==
    (Returned /\ DistinctIds(image_data)) =>
        \A g \in DOMAIN similarity_groups :
            LET group == similarity_groups[g] IN
            group.similarity_metric
                = SetMin({SeedDistance(group, k) : k \in Absorbed(group)})

TierRank(type) ==
    CASE type = "duplicate" -> 1
      [] type = "near-duplicate" -> 2
      [] type = "similar" -> 3
      [] type = "none" -> 4

\* C6: similarity_type is the tightest tier among the comparisons that added
\* a member (duplicate before near-duplicate before similar), whatever the
\* order in which the members were absorbed.
C6_TypeIsTightestTier ==
    (Returned /\ DistinctIds(image_data)) =>
        \A g \in DOMAIN similarity_groups :
            LET group == similarity_groups[g] IN
            TierRank(group.similarity_type)
                = SetMin({TierRank(similarity_type(SeedDistance(group, k))) :
                            k \in Absorbed(group)})

\* C7: for every hash_threshold, no image farther than 15 from the seed is
\* in the seed's group; a distance <= 5 classifies as duplicate, otherwise
\* <= hash_threshold as near-duplicate, otherwise <= 15 as similar.
C7_BeyondSimilarNeverAdded ==
    (Returned /\ DistinctIds(image_data)) =>
        \A g \in DOMAIN similarity_groups :
            LET group == similarity_groups[g] IN
            /\ \A k \in Absorbed(group) : SeedDistance(group, k) <= SimilarDistance
            /\ Len(group.image_ids) = 2 =>
                 group.similarity_type =
                    IF SeedDistance(group, 2) <= DuplicateDistance THEN "duplicate"
                    ELSE IF SeedDistance(group, 2) <= hash_threshold THEN "near-duplicate"
                    ELSE "similar"

\* 10 * (0.4 * technical_score + 0.6 * aesthetic_score), exactly
ExactScore(img) ==
    4 * Get(img, "technical_score", DefaultScore)
    + 6 * Get(img, "aesthetic_score", DefaultScore)

ResolutionOf(img) == Get(img, "resolution", DefaultResolution)

Members(group) == {RecordOf(id) : id \in Range(group.image_ids)}

Member(group, k) == RecordOf(group.image_ids[k])

\* scenario C: quality [5,3,4], aesthetic [2,5,3], equal resolution
ScenarioC(group) ==
    /\ Len(group.image_ids) = 3
    /\ \A k \in 1..3 : DOMAIN Member(group, k) = DOMAIN ImageRecord("", FailedHashes, 0, 0, 0)
    /\ <<Member(group, 1).technical_score, Member(group, 2).technical_score,
         Member(group, 3).technical_score>> = <<5, 3, 4>>
    /\ <<Member(group, 1).aesthetic_score, Member(group, 2).aesthetic_score,
         Member(group, 3).aesthetic_score>> = <<2, 5, 3>>
    /\ Member(group, 1).resolution = Member(group, 2).resolution
    /\ Member(group, 2).resolution = Member(group, 3).resolution

\* C8: selected_best is a member whose combined score 0.4 * technical_score
\* + 0.6 * aesthetic_score is maximal in the group; in scenario C the second
\* member is selected.
C8_BestHasMaximalScore ==
    Returned =>
        \A g \in DOMAIN similarity_groups :
            LET group == similarity_groups[g] IN
            /\ \A img \in Members(group) :
                  ExactScore(RecordOf(group.selected_best)) >= ExactScore(img)
            /\ ScenarioC(group) => group.selected_best = group.image_ids[2]

\* the group of scenario C was emitted
C8_Witness ==
    Returned /\ \E g \in DOMAIN similarity_groups : ScenarioC(similarity_groups[g])

\* the members with the maximal combined score
TopScored(group) ==
    {img \in Members(group) :
        \A other \in Members(group) : ExactScore(img) >= ExactScore(other)}

\* those of them with the highest resolution
TopResolution(group) ==
    {img \in TopScored(group) :
        \A other \in TopScored(group) : ResolutionOf(img) >= ResolutionOf(other)}

\* C9: when members tie on the maximal combined score and differ in
\* resolution, selected_best is the tied member with the highest resolution.
C9_TieBrokenByResolution ==
    Returned =>
        \A g \in DOMAIN similarity_groups :
            LET group == similarity_groups[g] IN
            Cardinality(TopScored(group)) >= 2 =>
                RecordOf(group.selected_best) \in TopResolution(group)

\* C10: when members tie on both combined score and resolution,
\* selected_best is the tied member that comes earliest in the input order.
C10_TieBrokenByInputOrder ==
    Returned =>
        \A g \in DOMAIN similarity_groups :
            LET group == similarity_groups[g] IN
            Cardinality(TopResolution(group)) >= 2 =>
                /\ RecordOf(group.selected_best) \in TopResolution(group)
                /\ \A img \in TopResolution(group) :
                      PositionOf(group.selected_best) <= PositionOf(img.image_id)

----------------------------------------------------------------------------
(* Properties of the quality assessment agent *)

\* process_image has returned a record
ProcessReturned == pc = "returned" /\ DOMAIN assessment # {}

ScoreFields == {"quality_score", "sharpness", "exposure", "noise", "resolution"}

\* 100 times the weighted sum of the record's sub-scores, exactly
ExactWeightedSum(record) ==
    35 * record.sharpness + 30 * record.exposure + 20 * record.noise
    + 15 * record.resolution

\* round half away from zero, of hundredths >= 0
RoundHalfAway(hundredths) == (hundredths + 50) \div 100

\* C11: for all sub-scores in 1..5, the quality_score process_image returns is
\* the weighted sum 0.35 sharpness + 0.30 exposure + 0.20 noise + 0.15
\* resolution rounded half away from zero (2.5 gives 3, 4.5 gives 5), and it
\* lies in 1..5.
C11_CompositeRoundsHalfAwayFromZero ==
    (ProcessReturned /\ image.decodes) =>
        /\ assessment.quality_score = RoundHalfAway(ExactWeightedSum(assessment))
        /\ assessment.quality_score \in 1..5

\* the image as it measures when no sub-metric throws
Measured(img) == [img EXCEPT !.raising = {}]

\* C13: when exactly one of sharpness, exposure, noise raises on a decoded
\* image, the record has that sub-metric at 3, the others as computed, the
\* composite computed from them, and "processing_error" among its issues.
C13_SubMetricFailureIsFlagged ==
    (ProcessReturned /\ image.decodes /\ Cardinality(image.raising) = 1) =>
        /\ assessment.sharpness =
              (IF "sharpness" \in image.raising THEN NeutralScore
               ELSE assess_sharpness(Measured(image)))
        /\ assessment.exposure =
              (IF "exposure" \in image.raising THEN NeutralScore
               ELSE assess_exposure(Measured(image)).score)
        /\ assessment.noise =
              (IF "noise" \in image.raising THEN NeutralScore
               ELSE assess_noise(Measured(image)))
        /\ assessment.resolution = assess_resolution(image.width, image.height).score
        /\ assessment.quality_score =
              PyRound[WeightedAverage(assessment.sharpness, assessment.exposure,
                                      assessment.noise, assessment.resolution)]
        /\ "processing_error" \in Range(assessment.issues)

\* C14: every record process_image returns, on the success path, after a
\* sub-metric failure and after a decode failure, has quality_score,
\* sharpness, exposure, noise and resolution present and in 1..5.
C14_ScoreFieldsInRange ==
    ProcessReturned =>
        \A field \in ScoreFields :
            field \in DOMAIN assessment /\ assessment[field] \in 1..5

C14_Witness ==
    /\ ProcessReturned
    /\ image.decodes
    /\ image.raising = {"noise"}
    /\ assessment.quality_score = 5

\* QualityAssessmentAgent.run has returned to its caller
RunReturned == pc \in {"DuplicateDetectionAgent.run", "returned"} /\ validations # <<>>

Orders(n) ==
    {f \in [1..n -> 1..n] : \A i \in 1..n, j \in 1..n : f[i] = f[j] => i = j}

\* C12: QualityAssessmentAgent.run emits exactly one record per input image
\* whatever subset of the files fails to decode, the record of each
\* undecodable file has every score 3 and the flag "processing_error", and
\* the run completes.
C12_OneRecordPerImage ==
    /\ [](RunReturned =>
            \E order \in Orders(Len(image_paths)) :
                /\ Len(assessment_list) = Len(image_paths)
                /\ \A k \in DOMAIN image_paths :
                      LET record == assessment_list[k]
                          path   == image_paths[order[k]]
                      IN  /\ record.image_id = path.stem
                          /\ ~path.content.image.decodes =>
                                /\ \A field \in ScoreFields : record[field] = 3
                                /\ "processing_error" \in Range(record.issues))
    /\ <>RunReturned

C12_Witness ==
    /\ RunReturned
    /\ \E k \in DOMAIN image_paths : ~image_paths[k].content.image.decodes
    /\ \E k \in DOMAIN image_paths : image_paths[k].content.image.decodes
    /\ Len(assessment_list) = MaxPool

\* the Duplicate Detection stage is about to start, or has started
GroupingReached ==
    pc \in {"Duplicate Detection", "Filtering & Categorization",
            "Caption Generation", "Website Generation", "final_report", "done"}
    /\ image_paths # <<>>

\* C15: similarity grouping never starts while a scoring task of the batch is
\* unsubmitted or running: QualityAssessmentAgent.run returns only when each
\* submitted task has completed, and the Duplicate Detection stage starts
\* only after the Quality and Aesthetic stages have returned.
C15_GroupingAfterScoringBarrier ==
    /\ InQualityRun =>
          ~StageReturned("Duplicate Detection") /\ similarity_groups = <<>>
    /\ StageReturned("Quality Assessment") =>
          /\ Len(futures) = Len(image_paths)
          /\ Len(assessment_list) = Len(image_paths)
    /\ GroupingReached =>
          /\ \A k \in DOMAIN futures :
                futures[k].state = "finished" /\ futures[k].yielded
          /\ Len(agent_performance) >= 3
          /\ agent_performance[2].agent = "Quality Assessment"
          /\ agent_performance[3].agent = "Aesthetic Assessment"

C15_Witness ==
    /\ pc = "Duplicate Detection"
    /\ StageReturned("Quality Assessment")
    /\ Len(futures) = MaxBatch

\* the Quality Assessment stage ended in the except branch of _run_agent_stage
QualityStageFailed ==
    \E k \in DOMAIN validations :
        validations[k].agent = "Quality Assessment" /\ validations[k].status = "error"

\* C16: if the Quality Assessment stage raises, grouping and best-shot
\* selection do not begin and the run produces no group output.
C16_NoGroupingAfterFailedScoring ==
    QualityStageFailed =>
        /\ ~StageReturned("Duplicate Detection")
        /\ \A k \in DOMAIN agent_performance :
              agent_performance[k].agent # "Duplicate Detection"

\* the quality run followed by duplicate detection has returned
ScoringReturned == pc = "returned" /\ validations # <<>>

SubmissionOrder(paths) == [k \in DOMAIN paths |-> k]

\* the groups when the futures are yielded in submission order
GroupsInSubmissionOrder ==
    LET order         == SubmissionOrder(image_paths)
        metadata_list == MetadataRun(image_paths, order).output
        aesthetic     == AestheticRun(image_paths, metadata_list, order).output
    IN  DuplicateRun(image_paths, QualityRun(image_paths, RunMetadataList, order).output,
                     aesthetic, metadata_list).output

\* C17: for a fixed ordered batch with fixed content, the groups (members,
\* order, type, metric) and each selected_best that quality scoring followed
\* by duplicate detection produce are the same under every completion order
\* of the scoring workers.
C17_GroupsIndependentOfCompletionOrder ==
    ScoringReturned => similarity_groups = GroupsInSubmissionOrder

----------------------------------------------------------------------------
(* Properties of hamming_distance *)

\* hamming_distance has returned (its result may be 0)
HammingCalled == pc = "returned" /\ image_paths = <<>> /\ image_data = <<>>
                 /\ DOMAIN assessment = {}

\* C18: hamming_distance(a, a) = 0 for every hash value a the hash extractor
\* can emit, a hex string or the empty sentinel.
C18_DistanceToItselfIsZero ==
    (HammingCalled /\ arg_hash1 = arg_hash2) => returned_distance = 0

\* C19: hamming_distance(a, b) = hamming_distance(b, a) for all hash values,
\* the empty sentinel and strings of different lengths included.
C19_DistanceIsSymmetric ==
    HammingCalled => returned_distance = hamming_distance(arg_hash2, arg_hash1)

C19_Witness ==
    /\ HammingCalled
    /\ Len(arg_hash1) < Len(arg_hash2)
    /\ Len(arg_hash1) > 0
    /\ returned_distance = InvalidComparison

\* bit b of the hex digit c
Bit(c, b) == (HexValue(c) \div 2^b) % 2

\* the bit positions in which two hex strings of one length differ
DifferingBits(a, b) ==
    {pos \in (DOMAIN a) \X (0..3) : Bit(a[pos[1]], pos[2]) # Bit(b[pos[1]], pos[2])}

\* C20: hamming_distance returns 999 whenever the hashes differ in length or
\* one is the empty sentinel; for two non-empty hex strings of one length it
\* returns the number of differing bits, at most 4 times the length.
C20_InvalidIs999ElsePopcount ==
    HammingCalled =>
        IF Len(arg_hash1) = 0 \/ Len(arg_hash2) = 0 \/ Len(arg_hash1) # Len(arg_hash2)
        THEN returned_distance = 999
        ELSE /\ returned_distance = Cardinality(DifferingBits(arg_hash1, arg_hash2))
             /\ returned_distance <= 4 * Len(arg_hash1)

C20_Witness ==
    /\ HammingCalled
    /\ Len(arg_hash1) = MaxHashLen
    /\ returned_distance = 4 * MaxHashLen

HashesFailed(img) == img.phash = <<>> /\ img.dhash = <<>> /\ img.ahash = <<>>

\* the distances of the three hash families, each as hamming_distance gives it
FamilyDistances(img1, img2) ==
    {hamming_distance(img1.phash, img2.phash),
     hamming_distance(img1.dhash, img2.dhash),
     hamming_distance(img1.ahash, img2.ahash)}

\* how often an image_id stands in the emitted groups
Occurrences(id) ==
    Cardinality({gk \in (DOMAIN similarity_groups) \X (DOMAIN image_data) :
                    /\ gk[2] \in DOMAIN similarity_groups[gk[1]].image_ids
                    /\ similarity_groups[gk[1]].image_ids[gk[2]] = id})

\* the records with this image_id that have at least one hash
Hashed(id) ==
    {k \in DOMAIN image_data :
        image_data[k].image_id = id /\ ~HashesFailed(image_data[k])}

\* C21: an image whose three hashes are all empty is in no emitted group,
\* neither as seed nor as absorbed member: an image_id stands in the groups
\* at most once per record of that id that has a hash. An image with one
\* valid hash family within 15 of the first image of the list, which is
\* always a seed, is in that seed's group.
C21_FailedHashNeverGrouped ==
    Returned =>
        /\ \A k \in DOMAIN image_data :
              Occurrences(image_data[k].image_id)
                  <= Cardinality(Hashed(image_data[k].image_id))
        /\ \A j \in 2..Len(image_data) :
              (\E d \in FamilyDistances(image_data[1], image_data[j]) :
                    d <= SimilarDistance)
              => /\ Len(similarity_groups) >= 1
                 /\ similarity_groups[1].image_ids[1] = image_data[1].image_id
                 /\ image_data[j].image_id \in Range(similarity_groups[1].image_ids)

\* a batch with an image that has no hash, and a group that absorbed an image
\* whose dhash is missing by its ahash
C21_Witness ==
    /\ Returned
    /\ DistinctIds(image_data)
    /\ \E k \in DOMAIN image_data : HashesFailed(image_data[k])
    /\ \E j \in 2..Len(image_data) :
          /\ image_data[j].dhash = <<>>
          /\ ~HashesFailed(image_data[j])
          /\ hamming_distance(image_data[1].phash, image_data[j].phash) > SimilarDistance
          /\ Len(similarity_groups) >= 1
          /\ image_data[j].image_id \in Range(similarity_groups[1].image_ids)
          /\ similarity_groups[1].image_ids[1] = image_data[1].image_id

\* C22: when hashing an image of the batch failed, the output the Duplicate
\* Detection stage returned carries a "hash_error" flag, in a group record or
\* in the issues of its validation.
C22_HashFailureIsReported ==
    (StageReturned("Duplicate Detection")
     /\ \E k \in DOMAIN image_paths : HashesFailed(image_paths[k].content.hashes))
    => \/ \E v \in Range(validations) :
             /\ v.agent = "Duplicate Detection"
             /\ "issues" \in DOMAIN v
             /\ "hash_error" \in Range(v.issues)
       \/ \E g \in DOMAIN outputs[StageKey("Duplicate Detection")] :
             LET group == outputs[StageKey("Duplicate Detection")][g] IN
             /\ "flags" \in DOMAIN group
             /\ "hash_error" \in Range(group.flags)

\* a configured hash_threshold that is no distance between two hashes
OutOfRange(cfg) ==
    "hash_threshold" \in DOMAIN cfg /\ cfg.hash_threshold \notin 0..HashBits

\* C23: constructing DuplicateDetectionAgent with a hash_threshold outside
\* 0..HashBits ends in a configuration error and never in an agent whose
\* methods can be called.
C23_OutOfRangeThresholdRejected ==
    OutOfRange(config) => pc \in {"DuplicateDetectionAgent", "ConfigurationError"}

\* the smallest of the three family distances
HashDistance(img1, img2) == SetMin(FamilyDistances(img1, img2))

SeedPosition(group) == PositionOf(group.image_ids[1])

\* the image_ids in the groups of the seeds before position i
GroupedBefore(i) ==
    UNION {Range(similarity_groups[g].image_ids) :
              g \in {x \in DOMAIN similarity_groups :
                        SeedPosition(similarity_groups[x]) < i}}

\* the later images that are ungrouped when the seed at position i scans them
\* and are within 15 of it
WithinReach(i) ==
    {j \in (i + 1)..Len(image_data) :
        /\ image_data[j].image_id \notin GroupedBefore(i)
        /\ HashDistance(image_data[i], image_data[j]) <= SimilarDistance}

Ungrouped(k) ==
    \A g \in DOMAIN similarity_groups :
        image_data[k].image_id \notin Range(similarity_groups[g].image_ids)

C24_MembersBeyondReach ==
    /\ Returned /\ hash_threshold = DefaultHashThreshold /\ DistinctIds(image_data)
    /\ \E g \in DOMAIN similarity_groups :
          LET group == similarity_groups[g] IN
          \E k, l \in Absorbed(group) :
              HashDistance(Member(group, k), Member(group, l)) > SimilarDistance

\* the three hashes of the two images are identical and none is the sentinel
IdenticalHashes(img1, img2) ==
    /\ img1.phash = img2.phash /\ img1.phash # <<>>
    /\ img1.dhash = img2.dhash /\ img1.dhash # <<>>
    /\ img1.ahash = img2.ahash /\ img1.ahash # <<>>

SameGroup(id1, id2) ==
    \E g \in DOMAIN similarity_groups :
        {id1, id2} \subseteq Range(similarity_groups[g].image_ids)

\* C25: two images of the list whose three hashes are identical and not the
\* sentinel are in one emitted group, wherever they stand and whatever else
\* the list holds; a list of just the two gives one group of type
\* 'duplicate' with metric 0.
C25_IdenticalHashesShareGroup ==
    Returned =>
        /\ \A i, j \in DOMAIN image_data :
              (i < j /\ IdenticalHashes(image_data[i], image_data[j]))
              => SameGroup(image_data[i].image_id, image_data[j].image_id)
        /\ (Len(image_data) = 2 /\ IdenticalHashes(image_data[1], image_data[2]))
           => /\ Len(similarity_groups) = 1
              /\ similarity_groups[1].similarity_type = "duplicate"
              /\ similarity_groups[1].similarity_metric = 0

\* the records that cannot be told from record k in the output: the same
\* image_id and the same hashes
Twins(k) ==
    {r \in DOMAIN image_data :
        /\ image_data[r].image_id = image_data[k].image_id
        /\ image_data[r].phash = image_data[k].phash
        /\ image_data[r].dhash = image_data[k].dhash
        /\ image_data[r].ahash = image_data[k].ahash}

\* an image with the id and hashes of record k is in no group: the groups
\* hold its image_id less often than there are such records (with distinct
\* image_ids: record k is in no group)
LeftOut(k) == Occurrences(image_data[k].image_id) < Cardinality(Twins(k))

\* C26: after find_similar_groups returns, any two images that are in no
\* group are farther than 15 from each other by the smallest of their three
\* hash distances.
C26_UngroupedAreFarApart ==
    Returned =>
        \A i, j \in DOMAIN image_data :
            (i \notin Twins(j) /\ LeftOut(i) /\ LeftOut(j))
            => HashDistance(image_data[i], image_data[j]) > SimilarDistance

\* C27: for a list with distinct image_ids, the image_ids of every emitted
\* group stand in strictly increasing input position, so none is repeated,
\* and the first is the seed every other member passed the tier test with;
\* the group_ids are group_0, group_1, ... in the order of the seeds.
C27_GroupsFollowInputOrder ==
    (Returned /\ DistinctIds(image_data)) =>
        \A g \in DOMAIN similarity_groups :
            LET group == similarity_groups[g] IN
            /\ \A k, l \in DOMAIN group.image_ids :
                  k < l => PositionOf(group.image_ids[k]) < PositionOf(group.image_ids[l])
            /\ \A k \in Absorbed(group) :
                  similarity_type(HashDistance(Member(group, 1), Member(group, k))) # "none"
            /\ group.group_id = <<"group_", g - 1>>
            /\ \A h \in DOMAIN similarity_groups :
                  g < h => SeedPosition(group) < SeedPosition(similarity_groups[h])

\* two groups were emitted for a list with distinct image_ids, the second
\* seed standing between the first seed and the image it absorbed
C27_Witness ==
    /\ Returned /\ DistinctIds(image_data)
    /\ Len(similarity_groups) = 2
    /\ similarity_groups[2].group_id = <<"group_", 1>>
    /\ PositionOf(similarity_groups[2].image_ids[1])
          < PositionOf(similarity_groups[1].image_ids[2])

\* the emitted records that carry an issue flag: run appends one entry to its
\* issues list for each of them
Flagged == {k \in DOMAIN assessment_list : assessment_list[k].issues # <<>>}

\* the status is 'success' exactly when no record is flagged, 'error' exactly
\* when the issue entries are at least as many as the input images, and
\* 'warning' otherwise
StatusAsStated ==
    LET status == validations[Len(validations)].status IN
    /\ status = "success" <=> Flagged = {}
    /\ status = "error" <=> Cardinality(Flagged) >= Len(image_paths)
    /\ status = "warning" <=> (Flagged # {} /\ Cardinality(Flagged) < Len(image_paths))

\* C28 as stated, for every batch
C28_StatusAsStated == (pc = "DuplicateDetectionAgent.run") => StatusAsStated

\* C28: on a batch of at least one image QualityAssessmentAgent.run reports
\* 'success' exactly when no emitted record carries an issue flag, 'error'
\* exactly when the number of issue entries is at least the number of input
\* images, and 'warning' otherwise.
C28_StatusOfNonEmptyBatch ==
    (pc = "DuplicateDetectionAgent.run" /\ image_paths # <<>>) => StatusAsStated

\* a batch of which some but not all records are flagged returned 'warning'
C28_Witness ==
    /\ pc = "DuplicateDetectionAgent.run"
    /\ Flagged # {}
    /\ Cardinality(Flagged) < Len(image_paths)
    /\ validations[Len(validations)].status = "warning"

\* C29: for every configured min_resolution_pixels, the record process_image
\* returns carries "low_resolution" if and only if its resolution score is 1.
C29_LowResolutionIffScoreOne ==
    ProcessReturned =>
        ("low_resolution" \in Range(assessment.issues) <=> assessment.resolution = 1)

\* the stages run_workflow has been through at a position
StagesAttempted ==
    CASE pc = "run_workflow" -> 0
      [] pc = "QualityAssessmentAgent.run" -> 1
      [] pc \in {"final_report", "done"} -> Len(StageOrder)
      [] OTHER -> (CHOOSE k \in DOMAIN StageOrder : StageOrder[k] = pc) - 1

\* the stage raised: _run_agent_stage stored no output for it
Raised(name) == ~StageReturned(name)

\* C30: on a non-empty batch every stage attempted so far, raising or not,
\* left exactly one validation entry and one performance entry, in the fixed
\* order of the stages; the entry of a stage that raised has status 'error'
\* and no image processed; the workflow is past all seven stages only with
\* seven entries of each, so a raising stage never cuts it short.
C30_OneEntryPerStage ==
    image_paths # <<>> =>
        /\ Len(validations) = StagesAttempted
        /\ Len(agent_performance) = StagesAttempted
        /\ \A k \in 1..StagesAttempted :
              /\ agent_performance[k].agent = StageOrder[k]
              /\ Raised(StageOrder[k]) =>
                    /\ validations[k].agent = StageOrder[k]
                    /\ validations[k].status = "error"
                    /\ agent_performance[k].images_processed = 0

\* the run is over, a stage raised and a later stage returned its output
C30_Witness ==
    /\ pc = "done"
    /\ image_paths # <<>>
    /\ \E k, l \in DOMAIN StageOrder :
          /\ k < l
          /\ Raised(StageOrder[k])
          /\ validations[k].status = "error"
          /\ StageReturned(StageOrder[l])

====
